---- MODULE Spec2Model ----
(***************************************************************************)
(* Model of darts' ConformalModel (darts/models/cp/conformal_model.py):    *)
(* construction, fit, predict and historical_forecasts of the naive        *)
(* conformal wrapper around a pre-trained global forecasting model.        *)
(*                                                                         *)
(* Numbers.  alpha is the rational alpha/AlphaDen.  np.quantile with       *)
(* linear interpolation of integer residuals is then an integer multiple   *)
(* of 1/AlphaDen, so every value of a conformal output (lower, center,     *)
(* upper) is stored multiplied by AlphaDen.  Series values, wrapped        *)
(* forecasts and residuals are plain integers.                             *)
(*                                                                         *)
(* Indices.  Python indices (forecast index, residual index, horizon       *)
(* step, component) are kept 0-based as in the source; At(s, i) reads the  *)
(* element with Python index i of a TLA+ sequence.  Time stamps are the    *)
(* integers 0, 1, ... (a RangeIndex of frequency 1).                       *)
(***************************************************************************)
EXTENDS Integers, Sequences, FiniteSets, TLC

\* ------------------------------------------------------------------------
\* Bounds of the model
\* ------------------------------------------------------------------------
MaxLen == 8
MaxHorizon == 2
MaxTrain == 2
MaxStride == 2

\* input chunk length (lags) of the wrapped model
InLen == 3

\* ------------------------------------------------------------------------
\* Python / numpy values
\* ------------------------------------------------------------------------
None == -1000000
NaN == -2000000
AlphaDen == 10

Min(a, b) == IF a < b THEN a ELSE b
Max(a, b) == IF a > b THEN a ELSE b
Abs(a) == IF a < 0 THEN -a ELSE a

At(s, i) == s[i + 1]

\* seq[i] of a Python list / numpy axis of length n accepts -n <= i < n
IndexOK(i, n) == -n <= i /\ i < n
NormIndex(i, n) == IF i < 0 THEN i + n ELSE i

\* bound of a Python slice with a positive step, clamped as Python does
SliceBound(i, n, dflt) ==
    IF i = None THEN dflt
    ELSE IF i < 0 THEN Max(i + n, 0)
    ELSE Min(i, n)

\* s[start:stop:step]
PySlice(s, start, stop, step) ==
    LET n == Len(s)
        lo == SliceBound(start, n, 0)
        hi == SliceBound(stop, n, n)
        cnt == IF hi > lo THEN (hi - lo + step - 1) \div step ELSE 0
    IN [x \in 1..cnt |-> s[lo + (x - 1) * step + 1]]

RECURSIVE SortAsc(_)
SortAsc(s) ==
    IF Len(s) <= 1 THEN s
    ELSE LET m == CHOOSE i \in 1..Len(s) : \A j \in 1..Len(s) : s[i] <= s[j]
             rest == [x \in 1..(Len(s) - 1) |-> IF x < m THEN s[x] ELSE s[x + 1]]
         IN <<s[m]>> \o SortAsc(rest)

\* np.quantile(xs, q = a / AlphaDen), method "linear", result times AlphaDen
LinearQuantile(xs, a) ==
    LET n == Len(xs)
        srt == SortAsc(xs)
        pos == a * (n - 1)
        lo == pos \div AlphaDen
        fr == pos % AlphaDen
    IN IF fr = 0 THEN AlphaDen * srt[lo + 1]
       ELSE AlphaDen * srt[lo + 1] + fr * (srt[lo + 2] - srt[lo + 1])

\* np.quantile: a NaN among the values gives NaN
Quantile(xs, a) ==
    IF Len(xs) = 0 \/ \E x \in 1..Len(xs) : xs[x] = NaN THEN NaN
    ELSE LinearQuantile(xs, a)

\* np.nanquantile: NaN values are dropped first; an all-NaN slice gives NaN
NanQuantile(xs, a) ==
    LET kept == SelectSeq(xs, LAMBDA v : v # NaN)
    IN IF Len(kept) = 0 THEN NaN ELSE LinearQuantile(kept, a)

\* pred_vals - q_hat, pred_vals, pred_vals + q_hat (values times AlphaDen)
Lower(p, q) == IF q = NaN \/ p = NaN THEN NaN ELSE AlphaDen * p - q
Center(p) == IF p = NaN THEN NaN ELSE AlphaDen * p
Upper(p, q) == IF q = NaN \/ p = NaN THEN NaN ELSE AlphaDen * p + q

\* ------------------------------------------------------------------------
\* Input series: time index 0..len-1, `width` components
\* ------------------------------------------------------------------------
ValMod == 5
SeriesValue(seed, t, comp) ==
    (((seed + comp + 2) * t * t + seed + comp) % ValMod) + 3 * comp

MakeSeries(seed, len, width) ==
    [vals |-> [t \in 1..len |-> [c \in 1..width |-> SeriesValue(seed, t - 1, c - 1)]]]

\* the same series with a missing value (NaN) at time t_nan
MakeSeriesMissing(seed, len, width, t_nan) ==
    [vals |-> [t \in 1..len |-> [c \in 1..width |->
                 IF t - 1 = t_nan THEN NaN ELSE SeriesValue(seed, t - 1, c - 1)]]]

SeriesLen(s) == Len(s.vals)
SeriesWidth(s) == Len(s.vals[1])
EndTime(s) == SeriesLen(s) - 1

\* ------------------------------------------------------------------------
\* The wrapped, pre-trained global forecasting model (external collaborator)
\* ------------------------------------------------------------------------
\* forecast of component comp for step k (0-based) of the forecast whose
\* first predicted time is t: last observed value plus k (NaN when that value
\* is missing)
ModelForecast(s, t, k, comp) ==
    IF s.vals[t][comp + 1] = NaN THEN NaN ELSE s.vals[t][comp + 1] + k

\* model.predict(n, series): n points after the end of the series
ModelPredictOK(s) == SeriesLen(s) >= InLen
ModelPredict(s, n) ==
    LET L == SeriesLen(s)
    IN [times |-> [x \in 1..n |-> L + x - 1],
        vals |-> [x \in 1..n |->
                    [c \in 1..SeriesWidth(s) |-> ModelForecast(s, L, x - 1, c - 1)]]]

\* number of historical forecasts (retrain=False, stride=1, start=None):
\* forecast j starts at time InLen + j; with overlap_end=True the last one
\* starts one step after the end of the series, otherwise the last one ends
\* at the end of the series
\* the future covariates passed with a series are kept with it as the last
\* time stamp they cover; a forecast needs them up to its last step
HasCovariates(s) == "covariates_end" \in DOMAIN s
WithCovariates(s, covariates_end) ==
    [vals |-> s.vals, covariates_end |-> covariates_end]

NumForecasts(s, h, overlap_end) ==
    LET by_target == IF overlap_end THEN SeriesLen(s) - InLen + 1
                     ELSE SeriesLen(s) - InLen - h + 1
    IN IF HasCovariates(s)
       THEN Min(by_target, s.covariates_end - InLen - h + 2)
       ELSE by_target

HistForecast(s, h, j) ==
    [times |-> [x \in 1..h |-> InLen + j + x - 1],
     vals |-> [x \in 1..h |->
                 [c \in 1..SeriesWidth(s) |-> ModelForecast(s, InLen + j, x - 1, c - 1)]]]

\* model.historical_forecasts(..., last_points_only=False): list of forecasts
ModelHistoricalForecasts(s, h, overlap_end) ==
    [x \in 1..NumForecasts(s, h, overlap_end) |-> HistForecast(s, h, x - 1)]

\* model.historical_forecasts(..., last_points_only=True): one series made of
\* the last point of every forecast
ModelHistoricalForecastsLPO(s, h, overlap_end) ==
    LET n == NumForecasts(s, h, overlap_end)
    IN [times |-> [x \in 1..n |-> InLen + (x - 1) + h - 1],
        vals |-> [x \in 1..n |-> HistForecast(s, h, x - 1).vals[h]]]

\* metric ae of forecast j, step k, component comp; NaN where the target
\* series has no value (yet) or the forecast is NaN
AbsError(s, j, k, comp) ==
    LET t == InLen + j + k
        fc == ModelForecast(s, InLen + j, k, comp)
    IN IF t > EndTime(s) THEN NaN
       ELSE IF s.vals[t + 1][comp + 1] = NaN \/ fc = NaN THEN NaN
       ELSE Abs(s.vals[t + 1][comp + 1] - fc)

\* model.residuals(..., last_points_only=False, values_only=True):
\* per forecast an array (horizon, n comps)
ModelResiduals(s, h, overlap_end) ==
    [x \in 1..NumForecasts(s, h, overlap_end) |->
        [k \in 1..h |-> [c \in 1..SeriesWidth(s) |-> AbsError(s, x - 1, k - 1, c - 1)]]]

\* model.residuals(..., last_points_only=True, values_only=True):
\* array (n forecasts, n comps) of the residuals of the last step
ModelResidualsLPO(s, h, overlap_end) ==
    [x \in 1..NumForecasts(s, h, overlap_end) |->
        [c \in 1..SeriesWidth(s) |-> AbsError(s, x - 1, h - 1, c - 1)]]

\* the ValueError that the operation op of the wrapped model raises for a
\* series too short to forecast from
ModelRaised(op) == [kind |-> "error", err |-> "ValueError", raised_by |-> op]

\* ------------------------------------------------------------------------
\* ConformalModel
\* ------------------------------------------------------------------------
Raised(e) == [kind |-> "error", err |-> e]

\* ConformalModel.__init__ for a float alpha
NewConformalModel(model, alpha, method) ==
    [model |-> model,
     alpha |-> alpha,
     method |-> method,
     quantiles |-> None,
     symmetrical |-> TRUE,
     q_hats |-> <<>>,
     noncon_scores |-> <<>>,
     fit_called |-> TRUE]

\* the wrapped model handed to the constructor: what
\* isinstance(model, GlobalForecastingModel) and model._fit_called give
ModelKinds ==
    {"trained_global", "trained_global_multi", "untrained_global",
     "trained_local", "untrained_local"}
IsGlobalForecastingModel(model) ==
    model \in {"trained_global", "trained_global_multi", "untrained_global"}
ModelFitCalled(model) ==
    model \in {"trained_global", "trained_global_multi", "trained_local"}

\* the first check of ConformalModel.__init__ (alpha is always a float here,
\* so the second check never raises)
ModelRejectedIfUntrained(model) == ~ModelFitCalled(model)
ModelRejected(model) ==
    ~IsGlobalForecastingModel(model) \/ ~ModelFitCalled(model)

\* ConformalModel.__init__ with a float alpha and a list of quantiles (in
\* tenths): the quantiles are stored as given
NewConformalModelQ(model, alpha, method, quantiles) ==
    [NewConformalModel(model, alpha, method) EXCEPT
        !.quantiles = IF quantiles.is_none THEN None ELSE quantiles.list]

NoModel == [kind |-> "none"]

\* ConformalModel(model, alpha, method, quantiles): the object, or the error
Construct(c) ==
    IF ModelRejected(c.model)
    THEN [cm |-> NoModel, result |-> Raised("ValueError"), pc |-> "raised"]
    ELSE [cm |-> NewConformalModelQ(c.model, c.alpha, c.method, c.quantiles),
          result |-> [kind |-> "none"], pc |-> "idle"]

\* ConformalModel._cp_component_names
ParamNames == <<"q_lo", "q_md", "q_hi">>
CpComponentNames(s) ==
    [x \in 1..(3 * SeriesWidth(s)) |->
        [comp |-> (x - 1) \div 3, param |-> ParamNames[((x - 1) % 3) + 1]]]

\* np.concatenate([pred_vals - q_hat, pred_vals, pred_vals + q_hat], axis=1)
\* for one row: pred and q are rows of n comps
ConcatLoMdHi(pred, q) ==
    LET c == Len(pred)
    IN [x \in 1..(3 * c) |->
          IF x <= c THEN Lower(pred[x], q[x])
          ELSE IF x <= 2 * c THEN Center(pred[x - c])
          ELSE Upper(pred[x - 2 * c], q[x - 2 * c])]

\* `cp_preds[0] if called_with_single_series else cp_preds`
ReturnValueFirst(single, cp_preds) ==
    [kind |-> "ok", is_list |-> ~single, items |-> <<cp_preds[1]>>]
ReturnValue(single, cp_preds) ==
    [kind |-> "ok",
     is_list |-> ~single,
     items |-> IF single THEN <<cp_preds[1]>> ELSE cp_preds]

\* body of the loop of ConformalModel.predict for one series
PredictOne(self, s, pred, res) ==
    LET n == Len(pred.vals)
        c == SeriesWidth(s)
        \* np.concatenate(res, axis=2); np.quantile(res, q=alpha, axis=2)
        q_hat == [k \in 1..n |-> [comp \in 1..c |->
                    Quantile([p \in 1..Len(res) |-> res[p][k][comp]], self.alpha)]]
    IN [kind |-> "series",
        times |-> pred.times,
        vals |-> [k \in 1..n |-> ConcatLoMdHi(pred.vals[k], q_hat[k])],
        cols |-> CpComponentNames(s),
        used |-> [k \in 1..n |-> 0..(Len(res) - 1)],
        origins |-> [k \in 1..n |-> None]]

\* ConformalModel.predict(n, series)
PredictResultMethodFirst(self, series, single, n) ==
    IF self.method # "naive"
    THEN Raised("NotImplementedError")
    ELSE IF \E x \in 1..Len(series) : ~ModelPredictOK(series[x])
    THEN ModelRaised("predict")
    ELSE IF \E x \in 1..Len(series) : NumForecasts(series[x], n, FALSE) <= 0
    THEN ModelRaised("residuals")
    ELSE ReturnValue(single,
            [x \in 1..Len(series) |->
                PredictOne(self, series[x], ModelPredict(series[x], n),
                           ModelResiduals(series[x], n, FALSE))])
PredictResult(self, series, single, n) ==
    IF \E x \in 1..Len(series) : ~ModelPredictOK(series[x])
    THEN ModelRaised("predict")
    ELSE IF \E x \in 1..Len(series) : NumForecasts(series[x], n, FALSE) <= 0
    THEN ModelRaised("residuals")
    ELSE IF self.method # "naive"
    THEN Raised("NotImplementedError")
    ELSE ReturnValue(single,
            [x \in 1..Len(series) |->
                PredictOne(self, series[x], ModelPredict(series[x], n),
                           ModelResiduals(series[x], n, FALSE))])

\* _triul_indices(forecast_horizon, n_comps): the index triples
\* (idx_horizon[x], idx_comp[x], idx_hfc[x]) of the three returned arrays;
\* np.tril_indices(n, k=-1) gives the pairs (r, col) with col < r
TriulIndices(forecast_horizon, n_comps) ==
    LET tril == {rc \in (0..(forecast_horizon - 1)) \X (0..(forecast_horizon - 1)) :
                   rc[2] < rc[1]}
    IN {<<forecast_horizon - 1 - rc[1], comp, rc[2]>> :
          rc \in tril, comp \in 0..(n_comps - 1)}

\* last forecast index (exclusive) for conformal prediction
LastFcIdxAll(s, a, n_hfcs) == n_hfcs
LastFcIdxLate(s, a, n_hfcs) ==
    IF a.overlap_end \/ n_hfcs = 0 THEN n_hfcs ELSE n_hfcs - a.forecast_horizon + 1
LastFcIdx(s, a, n_hfcs) ==
    LET last_end == InLen + (n_hfcs - 1) + (a.forecast_horizon - 1)
        delta_end == last_end - EndTime(s)
    IN IF a.overlap_end \/ n_hfcs = 0 THEN n_hfcs ELSE n_hfcs - delta_end

\* number of leading forecasts that are only used for calibration
SkipNTrainShort(a) ==
    IF a.train_length # None
    THEN a.forecast_horizon + a.train_length - 2
    ELSE a.forecast_horizon - 1
SkipNTrain(a) ==
    IF a.train_length # None
    THEN a.forecast_horizon + a.train_length - 1
    ELSE a.forecast_horizon

\* forecast index of `start`, before the bounds check
SkipNStartRaw(a) ==
    LET first_start == IF a.last_points_only
                       THEN InLen + a.forecast_horizon - 1
                       ELSE InLen
        steps == a.start - first_start
    IN IF a.last_points_only THEN steps + a.forecast_horizon - 1 ELSE steps

StartOutOfBounds(s, a, n_hfcs) ==
    /\ a.start # None
    /\ \/ SkipNStartRaw(a) < 0
       \/ SkipNStartRaw(a) >= LastFcIdx(s, a, n_hfcs)
       \/ SkipNStartRaw(a) < SkipNTrain(a)

SkipNStart(s, a, n_hfcs) ==
    IF a.start = None \/ StartOutOfBounds(s, a, n_hfcs) THEN 0
    ELSE SkipNStartRaw(a)

\* the warning branch reads s_hfcs[skip_n_train] and s_hfcs[last_fc_idx]
StartWarningRaises(s, a, n_hfcs) ==
    /\ StartOutOfBounds(s, a, n_hfcs)
    /\ a.show_warnings
    /\ \/ ~IndexOK(SkipNTrain(a), n_hfcs)
       \/ ~IndexOK(LastFcIdx(s, a, n_hfcs), n_hfcs)

FirstFcIdx(s, a, n_hfcs) ==
    Max(SkipNTrain(a), SkipNStart(s, a, n_hfcs))

\* Python indices selected by seq[start:stop:step] of a sequence of length n
SliceIndices(n, start, stop, step) ==
    PySlice([x \in 1..n |-> x - 1], start, stop, step)

\* last_points_only=True: one output point per selected forecast
CalEndLPOShifted(a, fc_idx) == fc_idx - a.forecast_horizon
CalEndLPOStrided(a, fc_idx) == fc_idx - (a.forecast_horizon - 1) - (a.stride - 1)
CalEndLPO(a, fc_idx) == fc_idx - (a.forecast_horizon - 1)
CalStartLPO(a, fc_idx) ==
    IF a.train_length # None THEN CalEndLPO(a, fc_idx) - a.train_length ELSE None

HfcPointLPO(self, a, s, s_hfcs, res, first_fc_idx, idx, fc_idx) ==
    LET c == SeriesWidth(s)
        pred_vals == At(s_hfcs.vals, fc_idx)
        cal_idx == SliceIndices(Len(res), CalStartLPO(a, fc_idx), CalEndLPO(a, fc_idx), 1)
        q_hat == [comp \in 1..c |->
                    NanQuantile([p \in 1..Len(cal_idx) |-> At(res, cal_idx[p])[comp]],
                                self.alpha)]
    IN IF first_fc_idx = 0 /\ idx = 0
       THEN [row |-> [x \in 1..(3 * c) |-> Center(pred_vals[((x - 1) % c) + 1])],
             used |-> {}]
       ELSE [row |-> ConcatLoMdHi(pred_vals, q_hat),
             used |-> {cal_idx[p] : p \in {x \in 1..Len(cal_idx) :
                          \E comp \in 1..c : At(res, cal_idx[x])[comp] # NaN}}]

\* generate_index(start, length, freq): regular time index
GenerateIndexUnitFreq(start, length, freq) == [x \in 1..length |-> start + (x - 1)]
GenerateIndex(start, length, freq) == [x \in 1..length |-> start + (x - 1) * freq]

HfcLPO(self, a, s, first_fc_idx, last_fc_idx) ==
    LET h == a.forecast_horizon
        s_hfcs == ModelHistoricalForecastsLPO(s, h, TRUE)
        res == ModelResidualsLPO(s, h, TRUE)
        sel == SliceIndices(Len(s_hfcs.vals), first_fc_idx, last_fc_idx, a.stride)
        pts == [x \in 1..Len(sel) |->
                  HfcPointLPO(self, a, s, s_hfcs, res, first_fc_idx, x - 1, sel[x])]
    IN IF Len(sel) = 0
       THEN Raised("ValueError")
       ELSE [kind |-> "series",
             times |-> GenerateIndex(At(s_hfcs.times, first_fc_idx), Len(sel), a.stride),
             vals |-> [x \in 1..Len(sel) |-> pts[x].row],
             cols |-> CpComponentNames(s),
             used |-> [x \in 1..Len(sel) |-> pts[x].used],
             origins |-> [x \in 1..Len(sel) |-> sel[x]]]

\* last_points_only=False: one output forecast per selected forecast
CalEndInclusive(a, fc_idx) == fc_idx + 1
CalEnd(a, fc_idx) == fc_idx
CalStartUnpadded(a, fc_idx) ==
    IF a.train_length # None
    THEN CalEnd(a, fc_idx) - a.train_length
    ELSE None
CalStart(a, fc_idx) ==
    IF a.train_length # None
    THEN CalEnd(a, fc_idx) - a.train_length - (a.forecast_horizon - 1)
    ELSE None

\* the residual of step k, component comp at position p of cal_res is set to
\* NaN by one of the two triangular assignments
MaskedUpperLeftNone(idx, k, comp, p) == FALSE
MaskedUpperLeft(idx, k, comp, p) ==
    <<k, comp, p>> \in idx
MaskedLowerRight(idx, h, m, k, comp, p) ==
    \E t \in idx :
        /\ h - 1 - t[1] = k
        /\ t[2] = comp
        /\ NormIndex(m - 1 - t[3], m) = p

HfcForecast(self, a, s, triul, pred, res, first_fc_idx, idx, fc_idx) ==
    LET h == a.forecast_horizon
        c == SeriesWidth(s)
        cal_idx == SliceIndices(Len(res), CalStart(a, fc_idx), CalEnd(a, fc_idx), 1)
        m == Len(cal_idx)
        cal_res == [k \in 1..h |-> [comp \in 1..c |-> [p \in 1..m |->
                      IF \/ MaskedUpperLeft(triul, k - 1, comp - 1, p - 1)
                         \/ MaskedLowerRight(triul, h, m, k - 1, comp - 1, p - 1)
                      THEN NaN
                      ELSE At(res, cal_idx[p])[k][comp]]]]
        q_hat == [k \in 1..h |-> [comp \in 1..c |->
                    NanQuantile(cal_res[k][comp], self.alpha)]]
        zero_width == first_fc_idx = 0 /\ idx = 0
    IN IF ~zero_width /\ m = 0
       THEN Raised("ValueError")
       ELSE IF ~zero_width /\ \E t \in triul :
                 ~IndexOK(t[3], m) \/ ~IndexOK(m - 1 - t[3], m) \/ ~IndexOK(t[2], c)
       THEN Raised("IndexError")
       ELSE [kind |-> "series",
             times |-> pred.times,
             vals |-> [k \in 1..h |->
                         IF zero_width
                         THEN [x \in 1..(3 * c) |-> Center(pred.vals[k][((x - 1) % c) + 1])]
                         ELSE ConcatLoMdHi(pred.vals[k], q_hat[k])],
             cols |-> CpComponentNames(s),
             used |-> [k \in 1..h |->
                         IF zero_width THEN {}
                         ELSE {cal_idx[p] : p \in {x \in 1..m :
                                 \E comp \in 1..c : cal_res[k][comp][x] # NaN}}],
             origins |-> [k \in 1..h |-> fc_idx]]

HfcList(self, a, s, triul, first_fc_idx, last_fc_idx) ==
    LET h == a.forecast_horizon
        s_hfcs == ModelHistoricalForecasts(s, h, TRUE)
        res == ModelResiduals(s, h, TRUE)
        sel == SliceIndices(Len(s_hfcs), first_fc_idx, last_fc_idx, a.stride)
        fcs == [x \in 1..Len(sel) |->
                  HfcForecast(self, a, s, triul, At(s_hfcs, sel[x]), res,
                              first_fc_idx, x - 1, sel[x])]
    IN IF \E x \in 1..Len(sel) : fcs[x].kind = "error"
       THEN fcs[CHOOSE x \in 1..Len(sel) :
                  /\ fcs[x].kind = "error"
                  /\ \A y \in 1..(x - 1) : fcs[y].kind # "error"]
       ELSE [kind |-> "list", fcs |-> fcs]

\* body of the loop of ConformalModel.historical_forecasts for one series
HistoricalForecastsOne(self, a, s, triul) ==
    LET n_hfcs == NumForecasts(s, a.forecast_horizon, TRUE)
        last_fc_idx == LastFcIdx(s, a, n_hfcs)
        first_fc_idx == FirstFcIdx(s, a, n_hfcs)
    IN IF n_hfcs = 0 \/ (a.train_length # None /\ a.train_length > n_hfcs)
       THEN [kind |-> "empty"]
       ELSE IF StartWarningRaises(s, a, n_hfcs)
       THEN Raised("IndexError")
       ELSE IF first_fc_idx >= last_fc_idx
       THEN Raised("ValueError")
       ELSE IF a.last_points_only
       THEN HfcLPO(self, a, s, first_fc_idx, last_fc_idx)
       ELSE HfcList(self, a, s, triul, first_fc_idx, last_fc_idx)

\* ConformalModel.historical_forecasts(series, ...)
HistoricalForecastsResultFirstSeries(self, series, single, a) ==
    LET triul == TriulIndices(a.forecast_horizon, SeriesWidth(series[1]))
        items == [x \in 1..Len(series) |->
                    HistoricalForecastsOne(self, a, series[1], triul)]
    IN IF \E x \in 1..Len(series) : NumForecasts(series[x], a.forecast_horizon, TRUE) <= 0
       THEN ModelRaised("historical_forecasts")
       ELSE IF items[1].kind = "error"
       THEN items[1]
       ELSE ReturnValue(single, items)
HistoricalForecastsResult(self, series, single, a) ==
    LET \* the mask of `last_points_only=False`, from the width of series[0]
        triul == TriulIndices(a.forecast_horizon, SeriesWidth(series[1]))
        items == [x \in 1..Len(series) |->
                    HistoricalForecastsOne(self, a, series[x], triul)]
    IN IF \E x \in 1..Len(series) : NumForecasts(series[x], a.forecast_horizon, TRUE) <= 0
       THEN ModelRaised("historical_forecasts")
       ELSE IF \E x \in 1..Len(series) : items[x].kind = "error"
       THEN items[CHOOSE x \in 1..Len(series) :
                    /\ items[x].kind = "error"
                    /\ \A y \in 1..(x - 1) : items[y].kind # "error"]
       ELSE ReturnValue(single, items)

\* the calls that predict and historical_forecasts make to the wrapped model,
\* with the arguments that matter here; a call that raises is the last one
ResidualsCall(forecast_horizon, overlap_end, last_points_only) ==
    [op |-> "residuals", forecast_horizon |-> forecast_horizon,
     overlap_end |-> overlap_end, last_points_only |-> last_points_only]

PredictWrappedCalls(series, n) ==
    IF \E x \in 1..Len(series) : ~ModelPredictOK(series[x])
    THEN <<[op |-> "predict", n |-> n]>>
    ELSE <<[op |-> "predict", n |-> n], ResidualsCall(n, FALSE, FALSE)>>

HistoricalForecastsWrappedCallsAsCalled(series, a) ==
    LET hfc == [op |-> "historical_forecasts", forecast_horizon |-> a.forecast_horizon,
                overlap_end |-> a.overlap_end, last_points_only |-> a.last_points_only]
    IN IF \E x \in 1..Len(series) : NumForecasts(series[x], a.forecast_horizon, TRUE) <= 0
       THEN <<hfc>>
       ELSE <<hfc, ResidualsCall(a.forecast_horizon, a.overlap_end, a.last_points_only)>>
HistoricalForecastsWrappedCalls(series, a) ==
    LET hfc == [op |-> "historical_forecasts", forecast_horizon |-> a.forecast_horizon,
                overlap_end |-> TRUE, last_points_only |-> a.last_points_only]
    IN IF \E x \in 1..Len(series) : NumForecasts(series[x], a.forecast_horizon, TRUE) <= 0
       THEN <<hfc>>
       ELSE <<hfc, ResidualsCall(a.forecast_horizon, TRUE, a.last_points_only)>>

\* fields of the ConformalModel after fit / predict / historical_forecasts:
\* none of the three assigns to self
FitFields(m) == m
PredictFieldsSaving(m) == [m EXCEPT !.noncon_scores = <<"step1">>]
PredictFields(m) == m
HistoricalForecastsFields(m) == m

\* ------------------------------------------------------------------------
\* Inputs of the calls
\* ------------------------------------------------------------------------
AlphaSet == {2, 8}
MethodSet == {"naive", "cqr"}
Lengths == (InLen - 1)..MaxLen
StartTimes == {0, MaxLen - 2}

\* a single univariate series of every length, a single series of two
\* components, a list of one series, lists of two series (of equal and of
\* different lengths)
SeriesInputs ==
    {[series |-> <<MakeSeries(0, len, 1)>>, single |-> TRUE] : len \in Lengths} \cup
    {[series |-> <<MakeSeries(0, len, 2)>>, single |-> TRUE] : len \in {MaxLen - 1, MaxLen}} \cup
    {[series |-> <<MakeSeries(0, MaxLen, 1)>>, single |-> FALSE]} \cup
    {[series |-> <<MakeSeries(0, MaxLen, 1), MakeSeries(1, len, 1)>>, single |-> FALSE] :
        len \in {InLen + 1, MaxLen}} \cup
    {[series |-> <<MakeSeries(0, MaxLen, 2), MakeSeries(1, MaxLen, 2)>>, single |-> FALSE]}

AllHfcArgs ==
    [forecast_horizon : 1..MaxHorizon,
     train_length : {None} \cup 1..MaxTrain,
     stride : 1..MaxStride,
     start : {None} \cup StartTimes,
     overlap_end : BOOLEAN,
     last_points_only : BOOLEAN,
     show_warnings : BOOLEAN]

\* show_warnings is only read when a start is given
HfcArgs == {a \in AllHfcArgs : a.start = None => a.show_warnings}

\* constructor arguments; a model of another method than "naive" behaves the
\* same for every alpha
CtorArgs ==
    {c \in [alpha : AlphaSet, method : MethodSet] :
        c.method = "naive" \/ \A b \in AlphaSet : c.alpha <= b}

\* `start` has to be a time stamp of the series (sanity checks of the call)
ValidStart(inp, a) ==
    a.start = None \/ \A x \in 1..Len(inp.series) : a.start <= EndTime(inp.series[x])

NoCall == [op |-> "none"]
NoResult == [kind |-> "none"]

\* ------------------------------------------------------------------------
\* State machine: one ConformalModel and its caller
\* ------------------------------------------------------------------------
VARIABLES cm, ctor, pc, call, result, fresh, wrapped_calls
vars == <<cm, ctor, pc, call, result, fresh, wrapped_calls>>

Init ==
    /\ ctor \in CtorArgs
    /\ cm = NewConformalModel("trained_global", ctor.alpha, ctor.method)
    /\ pc = "idle"
    /\ call = NoCall
    /\ result = NoResult
    /\ fresh = TRUE
    /\ wrapped_calls = <<>>

Fit ==
    /\ pc = "idle"
    /\ \E inp \in SeriesInputs :
        /\ call' = [op |-> "fit", series |-> inp.series, single |-> inp.single]
        /\ result' = [kind |-> "self"]
    /\ cm' = FitFields(cm)
    /\ pc' = "returned"
    /\ UNCHANGED <<ctor, fresh>>
    /\ wrapped_calls' = <<>>

Predict ==
    /\ pc = "idle"
    /\ \E inp \in SeriesInputs, n \in 1..MaxHorizon :
        /\ call' = [op |-> "predict", series |-> inp.series, single |-> inp.single, n |-> n]
        /\ result' = PredictResult(cm, inp.series, inp.single, n)
    /\ cm' = PredictFields(cm)
    /\ pc' = "returned"
    /\ UNCHANGED <<ctor, fresh>>
    /\ wrapped_calls' = PredictWrappedCalls(call'.series, call'.n)

HistoricalForecasts ==
    /\ pc = "idle"
    /\ \E inp \in SeriesInputs, a \in HfcArgs :
        /\ ValidStart(inp, a)
        /\ call' = [op |-> "historical_forecasts", series |-> inp.series,
                    single |-> inp.single, args |-> a]
        /\ result' = HistoricalForecastsResult(cm, inp.series, inp.single, a)
    /\ cm' = HistoricalForecastsFields(cm)
    /\ pc' = "returned"
    /\ UNCHANGED <<ctor, fresh>>
    /\ wrapped_calls' = HistoricalForecastsWrappedCalls(call'.series, call'.args)

\* the caller takes the result (or the exception) and may call again
Return ==
    /\ pc = "returned"
    /\ pc' = "idle"
    /\ call' = NoCall
    /\ result' = NoResult
    /\ UNCHANGED <<cm, ctor, fresh>>
    /\ wrapped_calls' = <<>>

Next == Fit \/ Predict \/ HistoricalForecasts \/ Return

Spec == Init /\ [][Next]_vars

\* the same calls, with `fresh` recording whether a call has already
\* returned on this model
ReturnUsed ==
    /\ pc = "returned"
    /\ pc' = "idle"
    /\ call' = NoCall
    /\ result' = NoResult
    /\ fresh' = FALSE
    /\ UNCHANGED <<cm, ctor>>
    /\ wrapped_calls' = <<>>

NextCalls == Fit \/ Predict \/ HistoricalForecasts \/ ReturnUsed

SpecCalls == Init /\ [][NextCalls]_vars

\* ------------------------------------------------------------------------
\* Construction and argument binding: every wrapped model and quantile list
\* the constructor can be given, and calls whose arguments differ from the
\* usual (series, n) ones
\* ------------------------------------------------------------------------
\* lists of quantiles in tenths: none, valid, without 0.5, not mirrored,
\* outside [0, 1]
QuantileLists ==
    {[is_none |-> TRUE, list |-> <<>>]} \cup
    {[is_none |-> FALSE, list |-> q] :
        q \in {<<1, 5, 9>>, <<1, 9>>, <<1, 5, 8>>, <<-1, 5, 11>>}}

AllCtorArgs ==
    [model : ModelKinds, alpha : AlphaSet, method : MethodSet, quantiles : QuantileLists]

\* names of the parameters of predict and of historical_forecasts
PredictParams ==
    {"n", "series", "past_covariates", "future_covariates", "num_samples",
     "verbose", "predict_likelihood_parameters", "show_warnings"}
HistoricalForecastsParams ==
    {"series", "past_covariates", "future_covariates", "num_samples",
     "train_length", "start", "start_format", "forecast_horizon", "stride",
     "retrain", "overlap_end", "last_points_only", "verbose", "show_warnings",
     "predict_likelihood_parameters", "enable_optimization", "fit_kwargs",
     "predict_kwargs", "sample_weight"}

\* Python rejects a keyword that is no parameter before the body runs
UnexpectedKeyword(params, kw) == kw \notin params

\* the series the wrapped model was fit on, when it was fit on one series
TrainingSeries == MakeSeries(0, MaxLen, 1)

\* model.predict(n, series=None): the forecast of the training series of a
\* model fit on one series, an error for a model fit on several
ModelPredictNoSeriesOK(model) == model = "trained_global"

\* errors a call of model.residuals(series=None, ...) can end with; if it
\* returned, zip(None, preds, residuals) raises the TypeError
NoSeriesErrors == {"TypeError", "ValueError"}

InitConstruct ==
    /\ ctor \in AllCtorArgs
    /\ cm = Construct(ctor).cm
    /\ pc = Construct(ctor).pc
    /\ call = NoCall
    /\ result = Construct(ctor).result
    /\ fresh = TRUE
    /\ wrapped_calls = <<>>

\* predict(n) without series
PredictNoSeries ==
    /\ pc = "idle"
    /\ \E n \in 1..MaxHorizon :
        /\ call' = [op |-> "predict", single |-> FALSE, n |-> n]
        /\ IF ~ModelPredictNoSeriesOK(cm.model)
           THEN result' = Raised("ValueError")
           ELSE \E e \in NoSeriesErrors : result' = Raised(e)
    /\ cm' = PredictFields(cm)
    /\ pc' = "returned"
    /\ UNCHANGED <<ctor, fresh>>
    /\ wrapped_calls' =
          IF ~ModelPredictNoSeriesOK(cm.model)
          THEN <<[op |-> "predict", n |-> call'.n]>>
          ELSE <<[op |-> "predict", n |-> call'.n], ResidualsCall(call'.n, FALSE, FALSE)>>

\* predict(n, series, cal_series=series)
PredictCalSeries ==
    /\ pc = "idle"
    /\ \E inp \in SeriesInputs, n \in 1..MaxHorizon :
        /\ call' = [op |-> "predict", series |-> inp.series, single |-> inp.single,
                    n |-> n, cal_series |-> inp.series]
        /\ result' = IF UnexpectedKeyword(PredictParams, "cal_series")
                     THEN Raised("TypeError")
                     ELSE PredictResult(cm, inp.series, inp.single, n)
    /\ cm' = PredictFields(cm)
    /\ pc' = "returned"
    /\ UNCHANGED <<ctor, fresh>>
    /\ wrapped_calls' = <<>>

\* historical_forecasts(series, ..., cal_series=series)
HistoricalForecastsCalSeries ==
    /\ pc = "idle"
    /\ \E inp \in SeriesInputs, a \in HfcArgs :
        /\ a.start = None /\ a.stride = 1 /\ a.train_length = None
        /\ call' = [op |-> "historical_forecasts", series |-> inp.series,
                    single |-> inp.single, args |-> a, cal_series |-> inp.series]
        /\ result' = IF UnexpectedKeyword(HistoricalForecastsParams, "cal_series")
                     THEN Raised("TypeError")
                     ELSE HistoricalForecastsResult(cm, inp.series, inp.single, a)
    /\ cm' = HistoricalForecastsFields(cm)
    /\ pc' = "returned"
    /\ UNCHANGED <<ctor, fresh>>
    /\ wrapped_calls' = <<>>

NextConstruct ==
    Fit \/ Predict \/ PredictNoSeries \/ PredictCalSeries
        \/ HistoricalForecastsCalSeries \/ Return

SpecConstruct == InitConstruct /\ [][NextConstruct]_vars

\* ------------------------------------------------------------------------
\* Calls on series with a missing value
\* ------------------------------------------------------------------------
MissingSeriesInputs ==
    {[series |-> <<MakeSeriesMissing(0, MaxLen, 1, t_nan)>>, single |-> TRUE] :
        t_nan \in {MaxLen - 4, MaxLen - 2}}

PredictMissing ==
    /\ pc = "idle"
    /\ \E inp \in MissingSeriesInputs, n \in 1..MaxHorizon :
        /\ call' = [op |-> "predict", series |-> inp.series, single |-> inp.single, n |-> n]
        /\ result' = PredictResult(cm, inp.series, inp.single, n)
    /\ cm' = PredictFields(cm)
    /\ pc' = "returned"
    /\ UNCHANGED <<ctor, fresh>>
    /\ wrapped_calls' = PredictWrappedCalls(call'.series, call'.n)

HistoricalForecastsMissing ==
    /\ pc = "idle"
    /\ \E inp \in MissingSeriesInputs, a \in HfcArgs :
        /\ ValidStart(inp, a)
        /\ call' = [op |-> "historical_forecasts", series |-> inp.series,
                    single |-> inp.single, args |-> a]
        /\ result' = HistoricalForecastsResult(cm, inp.series, inp.single, a)
    /\ cm' = HistoricalForecastsFields(cm)
    /\ pc' = "returned"
    /\ UNCHANGED <<ctor, fresh>>
    /\ wrapped_calls' = HistoricalForecastsWrappedCalls(call'.series, call'.args)

NextMissing == PredictMissing \/ HistoricalForecastsMissing \/ Return

SpecMissing == Init /\ [][NextMissing]_vars

\* ------------------------------------------------------------------------
\* Calls with future covariates that end before, at or after the end of the
\* target series
\* ------------------------------------------------------------------------
CovariateSeriesInputs ==
    {[series |-> <<WithCovariates(MakeSeries(0, MaxLen, 1), (MaxLen - 1) + d)>>,
      single |-> TRUE] : d \in (0 - 2)..MaxHorizon}

HistoricalForecastsCovariates ==
    /\ pc = "idle"
    /\ \E inp \in CovariateSeriesInputs, a \in HfcArgs :
        /\ ValidStart(inp, a)
        /\ call' = [op |-> "historical_forecasts", series |-> inp.series,
                    single |-> inp.single, args |-> a]
        /\ result' = HistoricalForecastsResult(cm, inp.series, inp.single, a)
    /\ cm' = HistoricalForecastsFields(cm)
    /\ pc' = "returned"
    /\ UNCHANGED <<ctor, fresh>>
    /\ wrapped_calls' = HistoricalForecastsWrappedCalls(call'.series, call'.args)

NextCovariates == HistoricalForecastsCovariates \/ Return

SpecCovariates == Init /\ [][NextCovariates]_vars

\* ------------------------------------------------------------------------
\* A caller that only asks for historical forecasts
\* ------------------------------------------------------------------------
NextHfc == HistoricalForecasts \/ Return

SpecHfc == Init /\ [][NextHfc]_vars

\* ------------------------------------------------------------------------
\* Calls with a list of series
\* ------------------------------------------------------------------------
ListSeriesInputs == {inp \in SeriesInputs : ~inp.single}

PredictList ==
    /\ pc = "idle"
    /\ \E inp \in ListSeriesInputs, n \in 1..MaxHorizon :
        /\ call' = [op |-> "predict", series |-> inp.series, single |-> inp.single, n |-> n]
        /\ result' = PredictResult(cm, inp.series, inp.single, n)
    /\ cm' = PredictFields(cm)
    /\ pc' = "returned"
    /\ UNCHANGED <<ctor, fresh>>
    /\ wrapped_calls' = PredictWrappedCalls(call'.series, call'.n)

HistoricalForecastsList ==
    /\ pc = "idle"
    /\ \E inp \in ListSeriesInputs, a \in HfcArgs :
        /\ ValidStart(inp, a)
        /\ call' = [op |-> "historical_forecasts", series |-> inp.series,
                    single |-> inp.single, args |-> a]
        /\ result' = HistoricalForecastsResult(cm, inp.series, inp.single, a)
    /\ cm' = HistoricalForecastsFields(cm)
    /\ pc' = "returned"
    /\ UNCHANGED <<ctor, fresh>>
    /\ wrapped_calls' = HistoricalForecastsWrappedCalls(call'.series, call'.args)

NextLists == PredictList \/ HistoricalForecastsList \/ Return

SpecLists == Init /\ [][NextLists]_vars

\* ------------------------------------------------------------------------
\* Nonconformity scores and q-hat of a calibration frame
\* ------------------------------------------------------------------------
MaxRows == 3

\* ConformalModel.__init__ with the quantiles kept as given: a record that
\* says whether they are None, and the list
NewConformalModelSym(model, alpha, method, quantiles) ==
    [NewConformalModel(model, alpha, method) EXCEPT !.quantiles = quantiles]

\* ConformalModel.__init__ for a tuple alpha = (alpha_lo, alpha_hi)
NewConformalModelAsym(model, alpha, method, quantiles) ==
    [model |-> model,
     alpha |-> alpha,
     alpha_lo |-> alpha[1],
     alpha_hi |-> alpha[2],
     method |-> method,
     quantiles |-> quantiles,
     symmetrical |-> FALSE,
     q_hats |-> <<>>,
     noncon_scores |-> <<>>,
     fit_called |-> TRUE]

\* a - b of two floats
Minus(a, b) == IF a = NaN \/ b = NaN THEN NaN ELSE a - b

\* cqr_score_sym(row, quantile_lo_col, quantile_hi_col); the row holds the
\* two quantile columns as q_lo and q_hi
CqrScoreSym(row) ==
    LET lo == Minus(row.q_lo, row.y)
        hi == Minus(row.y, row.q_hi)
    IN IF lo = NaN THEN <<NaN, 1>>
       ELSE <<Max(lo, hi), IF lo > hi THEN 0 ELSE 1>>

\* cqr_score_asym(row, quantile_lo_col, quantile_hi_col)
CqrScoreAsym(row) ==
    LET lo == Minus(row.q_lo, row.y)
        hi == Minus(row.y, row.q_hi)
    IN <<lo, hi, IF lo # NaN /\ lo > hi THEN 0 ELSE 1>>

\* arr[~pd.isnull(arr)]
RemoveNaN(arr) == SelectSeq(arr, LAMBDA v : v # NaN)

\* ConformalModel._get_nonconformity_scores(df_cal, step_number): df_cal is
\* the sequence of rows with the columns of that step
GetNonconformityScores(self, df_cal) ==
    LET n == Len(df_cal)
    IN IF self.method = "cqr" /\ self.quantiles.is_none
       THEN \* min(None)
            Raised("TypeError")
       ELSE IF self.method = "cqr" /\ ~self.symmetrical
       THEN LET noncon_scores_lo ==
                    SortAsc(RemoveNaN([p \in 1..n |-> CqrScoreAsym(df_cal[p])[1]]))
                noncon_scores_hi ==
                    SortAsc(RemoveNaN([p \in 1..n |-> CqrScoreAsym(df_cal[p])[2]]))
            IN [kind |-> "ok",
                noncon_scores_hi |-> noncon_scores_lo,
                noncon_scores_lo |-> noncon_scores_hi]
       ELSE LET noncon_scores ==
                    IF self.method = "cqr"
                    THEN [p \in 1..n |-> CqrScoreSym(df_cal[p])[1]]
                    ELSE [p \in 1..n |->
                            IF Minus(df_cal[p].y, df_cal[p].yhat) = NaN THEN NaN
                            ELSE Abs(df_cal[p].y - df_cal[p].yhat)]
            IN [kind |-> "ok", noncon_scores |-> SortAsc(RemoveNaN(noncon_scores))]

\* int(len(noncon_scores) * alpha)
QHatIdx(noncon_scores, alpha) == (Len(noncon_scores) * alpha) \div AlphaDen

\* noncon_scores[-q_hat_idx]
QHatOf(noncon_scores, alpha) ==
    At(noncon_scores, NormIndex(0 - QHatIdx(noncon_scores, alpha), Len(noncon_scores)))

\* ConformalModel._get_q_hat(noncon_scores)
GetQHat(self, noncon_scores) ==
    IF self.method = "cqr" /\ ~self.symmetrical
    THEN LET noncon_scores_lo == noncon_scores.noncon_scores_lo
             noncon_scores_hi == noncon_scores.noncon_scores_hi
         IN IF \/ ~IndexOK(0 - QHatIdx(noncon_scores_lo, self.alpha_lo), Len(noncon_scores_lo))
               \/ ~IndexOK(0 - QHatIdx(noncon_scores_hi, self.alpha_hi), Len(noncon_scores_hi))
            THEN Raised("IndexError")
            ELSE [kind |-> "ok",
                  q_hat_lo |-> QHatOf(noncon_scores_lo, self.alpha_lo),
                  q_hat_hi |-> QHatOf(noncon_scores_hi, self.alpha_hi)]
    ELSE IF ~IndexOK(0 - QHatIdx(noncon_scores.noncon_scores, self.alpha),
                     Len(noncon_scores.noncon_scores))
    THEN Raised("IndexError")
    ELSE [kind |-> "ok", q_hat_sym |-> QHatOf(noncon_scores.noncon_scores, self.alpha)]

\* constructor arguments: a float alpha or a tuple (only with "cqr")
ScoreCtorArgs ==
    {c \in [alpha : AlphaSet \X AlphaSet, symmetrical : BOOLEAN, method : MethodSet,
            quantiles : {q \in QuantileLists : q.is_none \/ q.list = <<1, 9>>}] :
        /\ c.method = "naive" => c.symmetrical
        /\ c.symmetrical => c.alpha[1] = c.alpha[2]}

ConstructScores(c) ==
    IF c.symmetrical
    THEN NewConformalModelSym("trained_global", c.alpha[1], c.method, c.quantiles)
    ELSE NewConformalModelAsym("trained_global", c.alpha, c.method, c.quantiles)

\* calibration frames: per row the target, the forecast and its two quantiles
YValues == {0, 2, NaN}
QLoValues == {0, 1}
QHiValues == {1, 3}
CalRows == [y : YValues, yhat : {1}, q_lo : QLoValues, q_hi : QHiValues]
CalFrames == UNION {[1..n -> CalRows] : n \in 1..MaxRows}

InitScores ==
    /\ ctor \in ScoreCtorArgs
    /\ cm = ConstructScores(ctor)
    /\ pc = "idle"
    /\ call = NoCall
    /\ result = NoResult
    /\ fresh = TRUE
    /\ wrapped_calls = <<>>

CallGetNonconformityScores ==
    /\ pc = "idle"
    /\ \E df_cal \in CalFrames :
        /\ call' = [op |-> "_get_nonconformity_scores", df_cal |-> df_cal]
        /\ result' = GetNonconformityScores(cm, df_cal)
    /\ pc' = IF result'.kind = "ok" THEN "scored" ELSE "returned"
    /\ UNCHANGED <<cm, ctor, fresh>>
    /\ wrapped_calls' = <<>>

\* the scores just computed are handed to _get_q_hat
CallGetQHat ==
    /\ pc = "scored"
    /\ call' = [op |-> "_get_q_hat", df_cal |-> call.df_cal, noncon_scores |-> result]
    /\ result' = GetQHat(cm, result)
    /\ pc' = "returned"
    /\ UNCHANGED <<cm, ctor, fresh>>
    /\ wrapped_calls' = <<>>

NextScores == CallGetNonconformityScores \/ CallGetQHat \/ Return

SpecScores == InitScores /\ [][NextScores]_vars

\* ------------------------------------------------------------------------
\* Reading a returned result
\* ------------------------------------------------------------------------
IsHfcCall == call.op = "historical_forecasts"
IsPredictCall == call.op = "predict"
Returned == result.kind = "ok"

\* the conformal forecasts of one series: the list of forecasts, the single
\* last-points series, or nothing
ItemForecasts(item) ==
    IF item.kind = "list" THEN item.fcs
    ELSE IF item.kind = "series" THEN <<item>>
    ELSE <<>>

\* horizon step (0-based) of output row r of a historical forecast
RowStep(a, r) == IF a.last_points_only THEN a.forecast_horizon - 1 ELSE r - 1

\* first time stamp predicted by the forecast that output row r belongs to
FirstPredictedTime(a, fc, r) ==
    IF a.last_points_only THEN fc.times[r] - (a.forecast_horizon - 1) ELSE fc.times[1]

\* value of the column with the given name in a row
Named(fc, row, comp, param) ==
    row[CHOOSE i \in 1..Len(fc.cols) : fc.cols[i] = [comp |-> comp, param |-> param]]

HasNaN(fc) == \E r \in 1..Len(fc.vals) : \E i \in 1..Len(fc.vals[r]) : fc.vals[r][i] = NaN

\* ------------------------------------------------------------------------
\* C1: no look-ahead.  In historical_forecasts every residual that enters
\* the q-hat of an emitted forecast (of each of its rows) has a target time
\* strictly before the first time point predicted by that forecast.
\* ------------------------------------------------------------------------
C1_NoLookAhead ==
    (IsHfcCall /\ Returned) =>
        \A x \in 1..Len(result.items) :
            LET fcs == ItemForecasts(result.items[x])
                a == call.args
            IN \A f \in 1..Len(fcs) : \A r \in 1..Len(fcs[f].vals) :
                 \A j \in fcs[f].used[r] :
                    HistForecast(call.series[x], a.forecast_horizon, j).times[RowStep(a, r) + 1]
                        < FirstPredictedTime(a, fcs[f], r)

\* a strided run with a train_length, full horizons, on two components, whose
\* second emitted forecast calibrates on two residuals per step
C1_Witness ==
    /\ IsHfcCall /\ Returned
    /\ ~call.args.last_points_only
    /\ call.args.forecast_horizon = 2
    /\ call.args.train_length = 2
    /\ call.args.stride = 2
    /\ SeriesWidth(call.series[1]) = 2
    /\ LET fcs == ItemForecasts(result.items[1])
       IN /\ Len(fcs) >= 2
          /\ \A r \in 1..2 : Cardinality(fcs[2].used[r]) = 2

\* the wrapped model's own forecast for output row r of forecast fc
WrappedRow(s, fc, r) ==
    IF IsPredictCall THEN ModelPredict(s, call.n).vals[r]
    ELSE HistForecast(s, call.args.forecast_horizon,
                      FirstPredictedTime(call.args, fc, r) - InLen).vals[RowStep(call.args, r) + 1]

\* all emitted forecasts of the returned result, with their input series
Emitted ==
    UNION {{[s |-> call.series[x], fc |-> ItemForecasts(result.items[x])[f]] :
              f \in 1..Len(ItemForecasts(result.items[x]))} :
           x \in 1..Len(result.items)}

\* ------------------------------------------------------------------------
\* C2: in the output of predict the column named as the center (q_md) of
\* component k equals the wrapped model's forecast of component k at that
\* time point.
\* ------------------------------------------------------------------------
C2_CenterIsModelForecast ==
    (IsPredictCall /\ Returned) =>
        \A e \in Emitted : \A r \in 1..Len(e.fc.vals) :
            \A comp \in 0..(SeriesWidth(e.s) - 1) :
                Named(e.fc, e.fc.vals[r], comp, "q_md") = Center(WrappedRow(e.s, e.fc, r)[comp + 1])

\* ------------------------------------------------------------------------
\* C3: predict and historical_forecasts return 3*c columns laid out per
\* component: column 3k is the lower bound of component k, column 3k+1 its
\* center (the wrapped forecast) and column 3k+2 its upper bound, as the
\* column names say.
\* ------------------------------------------------------------------------
C3_ComponentLayout ==
    ((IsPredictCall \/ IsHfcCall) /\ Returned) =>
        \A e \in Emitted : \A r \in 1..Len(e.fc.vals) :
            LET c == SeriesWidth(e.s)
                row == e.fc.vals[r]
            IN /\ Len(row) = 3 * c
               /\ Len(e.fc.cols) = 3 * c
               /\ \A k \in 0..(c - 1) :
                    /\ At(e.fc.cols, 3 * k) = [comp |-> k, param |-> "q_lo"]
                    /\ At(e.fc.cols, 3 * k + 1) = [comp |-> k, param |-> "q_md"]
                    /\ At(e.fc.cols, 3 * k + 2) = [comp |-> k, param |-> "q_hi"]
                    /\ At(row, 3 * k + 1) = Center(WrappedRow(e.s, e.fc, r)[k + 1])
                    /\ At(row, 3 * k) <= At(row, 3 * k + 1)
                    /\ At(row, 3 * k + 1) <= At(row, 3 * k + 2)

\* ------------------------------------------------------------------------
\* C4: with symmetric naive scoring every output point of predict and
\* historical_forecasts has upper - center = center - lower >= 0.
\* ------------------------------------------------------------------------
C4_SymmetricBounds ==
    ((IsPredictCall \/ IsHfcCall) /\ Returned /\ cm.method = "naive" /\ cm.symmetrical) =>
        \A e \in Emitted : \A r \in 1..Len(e.fc.vals) :
            \A comp \in 0..(SeriesWidth(e.s) - 1) :
                LET lo == Named(e.fc, e.fc.vals[r], comp, "q_lo")
                    md == Named(e.fc, e.fc.vals[r], comp, "q_md")
                    hi == Named(e.fc, e.fc.vals[r], comp, "q_hi")
                IN /\ lo # NaN /\ hi # NaN
                   /\ hi - md = md - lo
                   /\ md - lo >= 0

\* times, values and column names of the last point of every forecast
LastPoints(item) ==
    IF item.kind = "list"
    THEN [kind |-> "series",
          times |-> [f \in 1..Len(item.fcs) |-> item.fcs[f].times[Len(item.fcs[f].times)]],
          vals |-> [f \in 1..Len(item.fcs) |-> item.fcs[f].vals[Len(item.fcs[f].vals)]],
          cols |-> item.fcs[1].cols]
    ELSE [kind |-> item.kind]

SeriesView(item) ==
    IF item.kind = "series"
    THEN [kind |-> "series", times |-> item.times, vals |-> item.vals, cols |-> item.cols]
    ELSE [kind |-> item.kind]

\* ------------------------------------------------------------------------
\* C5: for the same series, forecast_horizon, stride, overlap_end, start
\* and train_length, historical_forecasts with last_points_only=True ends
\* as the call with last_points_only=False does and returns, point by point
\* (values and time stamps), the last point of each of its forecasts.
\* ------------------------------------------------------------------------
C5_LastPointsOnlyEquivalence ==
    (IsHfcCall /\ call.args.last_points_only) =>
        LET full == HistoricalForecastsResult(cm, call.series, call.single,
                        [call.args EXCEPT !.last_points_only = FALSE])
        IN /\ result.kind = full.kind
           /\ Returned =>
                /\ result.is_list = full.is_list
                /\ Len(result.items) = Len(full.items)
                /\ \A x \in 1..Len(result.items) :
                     SeriesView(result.items[x]) = LastPoints(full.items[x])

\* a strided last-points run with a train_length on two components that
\* emits several points with a non-zero correction
C5_Witness ==
    /\ IsHfcCall /\ Returned
    /\ call.args.last_points_only
    /\ call.args.forecast_horizon = 2
    /\ call.args.train_length = 2
    /\ call.args.stride = 2
    /\ SeriesWidth(call.series[1]) = 2
    /\ result.items[1].kind = "series"
    /\ Len(result.items[1].vals) >= 2
    /\ \E r \in 1..Len(result.items[1].vals) :
         result.items[1].vals[r][1] < result.items[1].vals[r][3]

\* ------------------------------------------------------------------------
\* C6: historical_forecasts raises whenever not even one conformal forecast
\* can be produced for a target series; a returned result has, for every
\* series, at least one forecast and no NaN.
\* ------------------------------------------------------------------------
C6_RaisesWhenNoForecast ==
    (IsHfcCall /\ Returned) =>
        \A x \in 1..Len(result.items) :
            LET fcs == ItemForecasts(result.items[x])
            IN /\ Len(fcs) >= 1
               /\ \A f \in 1..Len(fcs) : Len(fcs[f].vals) >= 1 /\ ~HasNaN(fcs[f])

RECURSIVE SetToSeq(_)
SetToSeq(S) ==
    IF S = {} THEN <<>>
    ELSE LET m == CHOOSE i \in S : \A j \in S : i <= j
         IN <<m>> \o SetToSeq(S \ {m})

\* rows of the first emitted forecast of a series
FirstRows(a, fcs) == IF a.last_points_only THEN {1} ELSE 1..Len(fcs[1].vals)

\* ------------------------------------------------------------------------
\* C7 (as stated): the very first emitted forecast of historical_forecasts
\* has zero prior residuals and zero-width bounds (lower = median = upper
\* = point forecast); every later forecast has non-NaN bounds.
\* ------------------------------------------------------------------------
C7_FirstForecastZeroWidth ==
    (IsHfcCall /\ Returned) =>
        \A x \in 1..Len(result.items) :
            LET fcs == ItemForecasts(result.items[x])
                s == call.series[x]
            IN Len(fcs) >= 1 =>
                 /\ \A r \in FirstRows(call.args, fcs) :
                      /\ fcs[1].used[r] = {}
                      /\ \A i \in 1..(3 * SeriesWidth(s)) :
                           fcs[1].vals[r][i] =
                             Center(WrappedRow(s, fcs[1], r)[((i - 1) % SeriesWidth(s)) + 1])
                 /\ \A f \in 1..Len(fcs) : ~HasNaN(fcs[f])

\* ------------------------------------------------------------------------
\* C7 (amended): historical_forecasts never emits the zero-width fallback.
\* The first emitted forecast has index >= forecast_horizon (+ train_length
\* - 1), exactly that index unless a valid start moves it later; every
\* emitted forecast, the first included, calibrates every row on at least
\* one prior residual, and its values are the wrapped forecast -/+ the
\* alpha-quantile of those residuals, none of them NaN.
\* ------------------------------------------------------------------------
C7_FirstForecastCalibrated ==
    (IsHfcCall /\ Returned) =>
        \A x \in 1..Len(result.items) :
            LET fcs == ItemForecasts(result.items[x])
                s == call.series[x]
                a == call.args
                h == a.forecast_horizon
                min_idx == h + (IF a.train_length # None THEN a.train_length - 1 ELSE 0)
                first_idx == FirstPredictedTime(a, fcs[1], 1) - InLen
            IN Len(fcs) >= 1 =>
                 /\ first_idx >= min_idx
                 /\ (a.start = None \/ a.start - InLen < min_idx) => first_idx = min_idx
                 /\ \A f \in 1..Len(fcs) : \A r \in 1..Len(fcs[f].vals) :
                      LET js == SetToSeq(fcs[f].used[r])
                          q == [comp \in 1..SeriesWidth(s) |->
                                  NanQuantile([p \in 1..Len(js) |->
                                      AbsError(s, js[p], RowStep(a, r), comp - 1)], cm.alpha)]
                      IN /\ Len(js) >= 1
                         /\ ~HasNaN(fcs[f])
                         /\ fcs[f].vals[r] = ConcatLoMdHi(WrappedRow(s, fcs[f], r), q)

\* the first emitted forecast of a run without start has a non-zero width
C7_Witness ==
    /\ IsHfcCall /\ Returned
    /\ call.args.start = None
    /\ call.args.forecast_horizon = 2
    /\ SeriesWidth(call.series[1]) = 1
    /\ LET fcs == ItemForecasts(result.items[1])
       IN /\ Len(fcs) >= 1
          /\ fcs[1].used[1] # {}
          /\ fcs[1].vals[1][1] < fcs[1].vals[1][2]

\* ------------------------------------------------------------------------
\* C8: a start that maps to a forecast index below the minimum eligible
\* index, or otherwise out of range, is ignored: the call ends exactly as
\* the same call without start, for every show_warnings, overlap_end and
\* last_points_only.
\* ------------------------------------------------------------------------
C8_OutOfRangeStartIgnored ==
    (/\ IsHfcCall
     /\ call.args.start # None
     /\ \A x \in 1..Len(call.series) :
          StartOutOfBounds(call.series[x], call.args,
                           NumForecasts(call.series[x], call.args.forecast_horizon, TRUE))) =>
        result = HistoricalForecastsResult(cm, call.series, call.single,
                                           [call.args EXCEPT !.start = None])

\* ------------------------------------------------------------------------
\* C9: predict and historical_forecasts called with a list of k series
\* return a list of k results, result j being the result of series j; called
\* with a single series they return a single, non-list result.
\* ------------------------------------------------------------------------
CallResult(m, c) ==
    CASE c.op = "fit" -> [kind |-> "self"]
      [] c.op = "predict" -> PredictResult(m, c.series, c.single, c.n)
      [] c.op = "historical_forecasts" ->
            HistoricalForecastsResult(m, c.series, c.single, c.args)
      [] OTHER -> NoResult

C9_ListInListOut ==
    ((IsPredictCall \/ IsHfcCall) /\ Returned) =>
        /\ result.is_list = ~call.single
        /\ Len(result.items) = Len(call.series)
        /\ \A j \in 1..Len(call.series) :
             LET alone == CallResult(cm, [call EXCEPT !.series = <<call.series[j]>>,
                                                      !.single = TRUE])
             IN /\ alone.kind = "ok"
                /\ ~alone.is_list
                /\ result.items[j] = alone.items[1]

\* a list of two series gave a list of two different results
C9_Witness ==
    /\ (IsPredictCall \/ IsHfcCall) /\ Returned
    /\ result.is_list
    /\ Len(call.series) = 2
    /\ Len(result.items) = 2
    /\ result.items[1] # result.items[2]
    /\ result.items[1].kind # "empty"

\* ------------------------------------------------------------------------
\* C10: fit, predict and historical_forecasts leave every field of the
\* ConformalModel unchanged, and whatever was called before, a call returns
\* what it returns on a freshly constructed model.
\* ------------------------------------------------------------------------
C10_NoStateAcrossCalls ==
    [][/\ cm' = cm
       /\ pc' = "returned" =>
            result' = CallResult(NewConformalModel("trained_global", ctor.alpha, ctor.method),
                                 call')]_vars

\* a predict that returned intervals on a model that was called before
C10_Witness ==
    /\ ~fresh
    /\ pc = "returned"
    /\ IsPredictCall /\ Returned
    /\ cm = NewConformalModel("trained_global", ctor.alpha, ctor.method)

\* ------------------------------------------------------------------------
\* C11: constructing a conformal model raises a ValueError and yields no
\* model object when the wrapped model is a local model (trained or not)
\* or an untrained global model; for a trained global model it yields a
\* model that wraps it.
\* ------------------------------------------------------------------------
C11_ConstructionNeedsTrainedGlobal ==
    IF ctor.model \in {"trained_global", "trained_global_multi"}
    THEN /\ cm # NoModel
         /\ cm.model = ctor.model
         /\ pc # "raised"
    ELSE /\ cm = NoModel
         /\ pc = "raised"
         /\ result = Raised("ValueError")

\* a trained local model was rejected
C11_Witness ==
    /\ ctor.model = "trained_local"
    /\ cm = NoModel
    /\ result = Raised("ValueError")

\* a list of quantiles (in tenths) contains 0.5, lies in [0, 1] and is
\* mirrored around 0.5
ValidQuantiles(q) ==
    LET vals == {q[i] : i \in 1..Len(q)}
    IN /\ 5 \in vals
       /\ \A v \in vals : 0 <= v /\ v <= 10
       /\ \A v \in vals : (10 - v) \in vals

\* ------------------------------------------------------------------------
\* C12: construction with a list of quantiles that lacks 0.5, is not
\* mirrored around 0.5 or has a value outside [0, 1] raises a ValueError
\* and yields no model.
\* ------------------------------------------------------------------------
C12_QuantilesValidated ==
    (~ctor.quantiles.is_none /\ ~ValidQuantiles(ctor.quantiles.list)) =>
        /\ cm = NoModel
        /\ result = Raised("ValueError")

\* ------------------------------------------------------------------------
\* C13: predict and historical_forecasts called with a calibration series
\* (cal_series) identical to the target series end exactly as the same call
\* without a calibration series.
\* ------------------------------------------------------------------------
C13_SelfCalibrationSameOutput ==
    (/\ pc = "returned"
     /\ "cal_series" \in DOMAIN call
     /\ call.cal_series = call.series) =>
        result = CallResult(cm, call)

\* ------------------------------------------------------------------------
\* C14: predict without a series, on a model whose wrapped model was fit on
\* one series, returns the conformal intervals of that series (time index
\* and center of the wrapped model's own predict); when the wrapped model
\* was fit on several series it raises a ValueError.
\* ------------------------------------------------------------------------
C14_PredictWithoutSeries ==
    (pc = "returned" /\ call.op = "predict" /\ "series" \notin DOMAIN call) =>
        IF cm.model = "trained_global"
        THEN /\ result.kind = "ok"
             /\ ~result.is_list
             /\ LET fc == result.items[1]
                    own == ModelPredict(TrainingSeries, call.n)
                IN /\ fc.times = own.times
                   /\ \A r \in 1..call.n :
                        Named(fc, fc.vals[r], 0, "q_md") = Center(own.vals[r][1])
        ELSE result = Raised("ValueError")

StepResiduals(s, js, k) ==
    [comp \in 1..SeriesWidth(s) |->
        [p \in 1..Len(js) |-> AbsError(s, js[p], k, comp - 1)]]

\* ------------------------------------------------------------------------
\* C16: historical_forecasts with last_points_only=False and no
\* train_length computes the q-hat of the forecast with index i, horizon
\* step k (0-based, horizon h), from exactly the step-k residuals of the
\* historical forecasts j with h-1-k <= j <= i-1-k: i-h+1 >= 1 residuals
\* for every step.
\* ------------------------------------------------------------------------
C16_TriangularWindow ==
    (IsHfcCall /\ Returned /\ ~call.args.last_points_only
               /\ call.args.train_length = None) =>
        \A x \in 1..Len(result.items) :
            LET fcs == ItemForecasts(result.items[x])
                s == call.series[x]
                h == call.args.forecast_horizon
            IN \A f \in 1..Len(fcs) : \A r \in 1..Len(fcs[f].vals) :
                 LET i == fcs[f].origins[r]
                     k == r - 1
                     window == (h - 1 - k)..(i - 1 - k)
                     res == StepResiduals(s, SetToSeq(window), k)
                     q == [comp \in 1..SeriesWidth(s) |-> NanQuantile(res[comp], cm.alpha)]
                 IN /\ fcs[f].used[r] = window
                    /\ Cardinality(window) = i - h + 1
                    /\ i - h + 1 >= 1
                    /\ \A comp \in 1..SeriesWidth(s) : \A p \in 1..Len(res[comp]) :
                         res[comp][p] # NaN
                    /\ fcs[f].vals[r] = ConcatLoMdHi(WrappedRow(s, fcs[f], r), q)

\* a forecast of horizon 2 whose two steps each calibrate on two residuals,
\* taken from different historical forecasts
C16_Witness ==
    /\ IsHfcCall /\ Returned
    /\ ~call.args.last_points_only
    /\ call.args.train_length = None
    /\ call.args.forecast_horizon = 2
    /\ \E f \in 1..Len(ItemForecasts(result.items[1])) :
         LET fc == ItemForecasts(result.items[1])[f]
         IN /\ fc.origins[1] = 3
            /\ fc.used[1] = {1, 2}
            /\ fc.used[2] = {0, 1}

EmittedIndices(item) ==
    IF item.kind = "series" THEN item.origins
    ELSE IF item.kind = "list" THEN [f \in 1..Len(item.fcs) |-> item.fcs[f].origins[1]]
    ELSE <<>>

\* shortest series with one conformal forecast
MinLenOneForecast(a) ==
    InLen + a.forecast_horizon * (IF a.overlap_end THEN 1 ELSE 2)
          + (IF a.train_length # None THEN a.train_length - 1 ELSE 0)

\* ------------------------------------------------------------------------
\* C18: with start unset and stride 1, historical_forecasts emits exactly
\* the wrapped forecasts with indices forecast_horizon (+ train_length - 1)
\* up to, excluding, the number of wrapped forecasts (minus forecast_horizon
\* when overlap_end is False); a series of input_chunk_length +
\* forecast_horizon * (1 + [not overlap_end]) + (train_length - 1) points
\* gives exactly one conformal forecast, a series one point shorter an error.
\* ------------------------------------------------------------------------
C18_EligibleIndices ==
    (IsHfcCall /\ pc = "returned" /\ call.args.start = None /\ call.args.stride = 1) =>
        LET a == call.args
            h == a.forecast_horizon
            first == h + (IF a.train_length # None THEN a.train_length - 1 ELSE 0)
        IN /\ Returned =>
                \A x \in 1..Len(result.items) :
                    LET n == NumForecasts(call.series[x], h, TRUE)
                        last == IF a.overlap_end THEN n ELSE n - h
                    IN EmittedIndices(result.items[x]) =
                          [p \in 1..(last - first) |-> first + p - 1]
           /\ (\A x \in 1..Len(call.series) :
                    SeriesLen(call.series[x]) = MinLenOneForecast(a)) =>
                /\ Returned
                /\ \A x \in 1..Len(result.items) :
                     EmittedIndices(result.items[x]) = <<first>>
           /\ (\E x \in 1..Len(call.series) :
                    SeriesLen(call.series[x]) = MinLenOneForecast(a) - 1) =>
                result = Raised("ValueError")

\* the longest modelled series is just long enough for one forecast of
\* horizon 2 with train_length 2 and overlap_end=False
C18_Witness ==
    /\ IsHfcCall /\ Returned
    /\ call.args.start = None /\ call.args.stride = 1
    /\ ~call.args.overlap_end
    /\ call.args.train_length # None
    /\ SeriesLen(call.series[1]) = MinLenOneForecast(call.args)
    /\ Len(EmittedIndices(result.items[1])) = 1

\* ------------------------------------------------------------------------
\* C19: in predict with horizon n the q-hat of horizon step k (0-based
\* here) is taken from the most recent step-k residuals at the end of the
\* series: a run of consecutive historical forecasts that ends with the one
\* whose step-k target is the last observed point, of the same length for
\* every step.
\* ------------------------------------------------------------------------
C19_PredictUsesLatestResiduals ==
    (IsPredictCall /\ Returned) =>
        \A e \in Emitted : \A r \in 1..Len(e.fc.vals) :
            LET k == r - 1
                j_last == EndTime(e.s) - InLen - k
                cnt == Cardinality(e.fc.used[r])
            IN /\ cnt >= 1
               /\ cnt = Cardinality(e.fc.used[1])
               /\ e.fc.used[r] = (j_last - cnt + 1)..j_last

\* half the width of the interval of row r of a univariate forecast
HalfWidth(fc, r) == (fc.vals[r][3] - fc.vals[r][1]) \div 2

\* ------------------------------------------------------------------------
\* C20: the q-hat of predict and historical_forecasts is the quantile of
\* the residual window at the coverage level 1 - alpha; on the same window
\* a smaller alpha never gives a narrower interval.  (Stated for univariate
\* series, whose columns are lower, center, upper.)
\* ------------------------------------------------------------------------
C20_QuantileAtCoverageLevel ==
    ((IsPredictCall \/ IsHfcCall) /\ Returned /\ cm.method = "naive") =>
        \A x \in 1..Len(result.items) :
            LET s == call.series[x]
                fcs == ItemForecasts(result.items[x])
            IN SeriesWidth(s) = 1 =>
                 \A f \in 1..Len(fcs) : \A r \in 1..Len(fcs[f].vals) :
                    LET k == IF IsPredictCall THEN r - 1 ELSE RowStep(call.args, r)
                        res == StepResiduals(s, SetToSeq(fcs[f].used[r]), k)
                        q == NanQuantile(res[1], AlphaDen - cm.alpha)
                    IN /\ fcs[f].vals[r] = ConcatLoMdHi(WrappedRow(s, fcs[f], r), <<q>>)
                       /\ \A b \in AlphaSet :
                            b > cm.alpha =>
                              LET other == CallResult([cm EXCEPT !.alpha = b], call)
                                  ofc == ItemForecasts(other.items[x])[f]
                              IN HalfWidth(fcs[f], r) >= HalfWidth(ofc, r)

\* ------------------------------------------------------------------------
\* C21: undefined (NaN) residuals are excluded before the quantile is
\* taken, in predict as in historical_forecasts, and a window without a
\* defined residual makes the call fail: predict's bounds are the wrapped
\* forecast -/+ the quantile of the defined residuals, and no returned
\* forecast has a NaN bound around a defined wrapped forecast.
\* ------------------------------------------------------------------------
C21_UndefinedResidualsExcluded ==
    ((IsPredictCall \/ IsHfcCall) /\ Returned) =>
        \A e \in Emitted : \A r \in 1..Len(e.fc.vals) :
            LET pred == WrappedRow(e.s, e.fc, r)
                n_res == NumForecasts(e.s, Len(e.fc.vals), FALSE)
                res == StepResiduals(e.s, [j \in 1..n_res |-> j - 1], r - 1)
            IN /\ pred[1] # NaN =>
                    Named(e.fc, e.fc.vals[r], 0, "q_lo") # NaN
                      /\ Named(e.fc, e.fc.vals[r], 0, "q_hi") # NaN
               /\ IsPredictCall =>
                    e.fc.vals[r] =
                        ConcatLoMdHi(pred, <<NanQuantile(res[1], cm.alpha)>>)

\* ------------------------------------------------------------------------
\* C22 (as stated): whatever last_points_only and overlap_end the caller
\* passes, historical_forecasts requests the wrapped historical forecasts
\* and the residuals with overlap_end=True and last_points_only=False.
\* ------------------------------------------------------------------------
C22_RequestsFullForecasts ==
    (IsHfcCall /\ pc = "returned") =>
        /\ Len(wrapped_calls) >= 1
        /\ \A w \in 1..Len(wrapped_calls) :
             /\ wrapped_calls[w].overlap_end
             /\ ~wrapped_calls[w].last_points_only

\* ------------------------------------------------------------------------
\* C22 (amended): whatever overlap_end the caller passes,
\* historical_forecasts requests the wrapped historical forecasts and then
\* the residuals with overlap_end=True; last_points_only is passed on as
\* the caller gave it.
\* ------------------------------------------------------------------------
C22_RequestsOverlapEnd ==
    (IsHfcCall /\ pc = "returned") =>
        /\ Len(wrapped_calls) >= 1
        /\ wrapped_calls[1].op = "historical_forecasts"
        /\ Len(wrapped_calls) >= 2 => wrapped_calls[2].op = "residuals"
        /\ Returned => Len(wrapped_calls) = 2
        /\ \A w \in 1..Len(wrapped_calls) :
             /\ wrapped_calls[w].overlap_end
             /\ wrapped_calls[w].last_points_only = call.args.last_points_only
             /\ wrapped_calls[w].forecast_horizon = call.args.forecast_horizon

\* a returned call with overlap_end=False and last_points_only=True
C22_Witness ==
    /\ IsHfcCall /\ Returned
    /\ ~call.args.overlap_end
    /\ call.args.last_points_only
    /\ Len(wrapped_calls) = 2
    /\ wrapped_calls[2].overlap_end
    /\ wrapped_calls[2].last_points_only

\* the elements at positions 0, n, 2n, ... of a sequence
EveryNth(seq, n) ==
    [p \in 1..((Len(seq) + n - 1) \div n) |-> seq[(p - 1) * n + 1]]

\* the forecasts at positions 0, n, 2n, ... of one item of a result
StridedItem(item, n) ==
    IF item.kind = "list" THEN [kind |-> "list", fcs |-> EveryNth(item.fcs, n)]
    ELSE IF item.kind = "series"
    THEN [kind |-> "series",
          times |-> EveryNth(item.times, n),
          vals |-> EveryNth(item.vals, n),
          cols |-> item.cols,
          used |-> EveryNth(item.used, n),
          origins |-> EveryNth(item.origins, n)]
    ELSE item

\* ------------------------------------------------------------------------
\* C23: with start unset, historical_forecasts with stride s ends as the
\* call with stride 1 does and returns exactly the forecasts at positions
\* 0, s, 2s, ... of the stride-1 output, with the same values, time stamps
\* and calibration windows.
\* ------------------------------------------------------------------------
C23_StrideAfterCorrection ==
    (IsHfcCall /\ pc = "returned" /\ call.args.start = None) =>
        LET one == HistoricalForecastsResult(cm, call.series, call.single,
                       [call.args EXCEPT !.stride = 1])
        IN /\ result.kind = one.kind
           /\ ~Returned => result = one
           /\ Returned =>
                /\ Len(result.items) = Len(one.items)
                /\ \A x \in 1..Len(result.items) :
                     result.items[x] = StridedItem(one.items[x], call.args.stride)

\* a run with stride 2 that emits two of the at least three last points of
\* the stride-1 run
C23_Witness ==
    /\ IsHfcCall /\ Returned
    /\ call.args.start = None
    /\ call.args.stride = 2
    /\ call.args.last_points_only
    /\ call.args.train_length = None
    /\ Len(result.items[1].vals) >= 2
    /\ result.items[1].times[2] = result.items[1].times[1] + 2
    /\ Cardinality(result.items[1].used[2]) = Cardinality(result.items[1].used[1]) + 2

\* first and last time stamp of the wrapped forecast with index i
ForecastStart(i) == InLen + i
ForecastEnd(a, i) == InLen + i + a.forecast_horizon - 1

\* the p-th forecast of an output item, whatever its layout
ForecastAt(item, p) ==
    IF item.kind = "list" THEN item.fcs[p]
    ELSE [times |-> item.times[p], vals |-> item.vals[p], cols |-> item.cols,
          used |-> item.used[p]]

\* the forecasts that the runs with overlap_end=False and overlap_end=True
\* both emit are identical: the returned run against the other one
OverlapRunsAgree ==
    LET other == HistoricalForecastsResult(cm, call.series, call.single,
                     [call.args EXCEPT !.overlap_end = ~call.args.overlap_end])
    IN other.kind = "ok" =>
          \A x \in 1..Len(result.items) :
             LET ps == EmittedIndices(result.items[x])
                 qs == EmittedIndices(other.items[x])
             IN /\ result.items[x].kind = other.items[x].kind
                /\ \A p \in 1..Len(ps) : \A q \in 1..Len(qs) :
                      ps[p] = qs[q] =>
                          ForecastAt(result.items[x], p) = ForecastAt(other.items[x], q)

\* ------------------------------------------------------------------------
\* C24 (as stated): with overlap_end=False no emitted forecast has a time
\* point after the end of the series and the last emitted forecast ends
\* exactly at the end; with overlap_end=True the forecasts extending past
\* the end are emitted too, up to the one starting one step after the end;
\* the forecasts common to both runs are identical.
\* ------------------------------------------------------------------------
C24_OverlapEnd ==
    (IsHfcCall /\ Returned) =>
        /\ OverlapRunsAgree
        /\ \A x \in 1..Len(result.items) :
             LET idx == EmittedIndices(result.items[x])
                 s == call.series[x]
             IN Len(idx) >= 1 =>
                  IF call.args.overlap_end
                  THEN ForecastStart(idx[Len(idx)]) = EndTime(s) + 1
                  ELSE /\ \A p \in 1..Len(idx) : ForecastEnd(call.args, idx[p]) <= EndTime(s)
                       /\ ForecastEnd(call.args, idx[Len(idx)]) = EndTime(s)

\* ------------------------------------------------------------------------
\* C24 (amended): as stated, except that with a stride the last emitted
\* forecast is the last one the stride reaches: it ends (overlap_end=False)
\* at most stride - 1 steps before the end of the series, or starts
\* (overlap_end=True) at most stride - 1 steps before the step after the
\* end; exactly there for stride 1.
\* ------------------------------------------------------------------------
C24_OverlapEndStrided ==
    (IsHfcCall /\ Returned) =>
        /\ OverlapRunsAgree
        /\ \A x \in 1..Len(result.items) :
             LET idx == EmittedIndices(result.items[x])
                 s == call.series[x]
                 slack == call.args.stride - 1
             IN Len(idx) >= 1 =>
                  IF call.args.overlap_end
                  THEN /\ ForecastStart(idx[Len(idx)]) <= EndTime(s) + 1
                       /\ ForecastStart(idx[Len(idx)]) >= EndTime(s) + 1 - slack
                  ELSE /\ \A p \in 1..Len(idx) : ForecastEnd(call.args, idx[p]) <= EndTime(s)
                       /\ ForecastEnd(call.args, idx[Len(idx)]) >= EndTime(s) - slack

\* a run with overlap_end=False and horizon 2 whose last forecast ends at the
\* end of the series, while the run with overlap_end=True emits more
C24_Witness ==
    /\ IsHfcCall /\ Returned
    /\ ~call.args.overlap_end
    /\ call.args.forecast_horizon = 2
    /\ ~call.args.last_points_only
    /\ LET idx == EmittedIndices(result.items[1])
           long == HistoricalForecastsResult(cm, call.series, call.single,
                       [call.args EXCEPT !.overlap_end = TRUE])
       IN /\ Len(idx) >= 2
          /\ ForecastEnd(call.args, idx[Len(idx)]) = EndTime(call.series[1])
          /\ Len(EmittedIndices(long.items[1])) > Len(idx)

\* ------------------------------------------------------------------------
\* C25: whenever historical_forecasts computes a q-hat for the forecast with
\* index i, forecast_horizon <= first_fc_idx <= i < last_fc_idx <= number
\* of wrapped forecasts and 0 <= cal_start < cal_end <= i (cal_start read
\* as 0 when train_length is unset), also when the wrapped model's last
\* forecast ends early because the covariates are short.
\* ------------------------------------------------------------------------
C25_IndexInvariant ==
    (IsHfcCall /\ Returned) =>
        \A x \in 1..Len(result.items) :
            LET a == call.args
                s == call.series[x]
                n_hfcs == NumForecasts(s, a.forecast_horizon, TRUE)
                first_fc_idx == FirstFcIdx(s, a, n_hfcs)
                last_fc_idx == LastFcIdx(s, a, n_hfcs)
                idx == EmittedIndices(result.items[x])
            IN \A p \in 1..Len(idx) :
                 LET i == idx[p]
                     cal_end == IF a.last_points_only THEN CalEndLPO(a, i) ELSE CalEnd(a, i)
                     cal_start == IF a.train_length = None THEN 0
                                  ELSE IF a.last_points_only THEN CalStartLPO(a, i)
                                  ELSE CalStart(a, i)
                 IN /\ a.forecast_horizon <= first_fc_idx
                    /\ first_fc_idx <= i
                    /\ i < last_fc_idx
                    /\ last_fc_idx <= n_hfcs
                    /\ 0 <= cal_start
                    /\ cal_start < cal_end
                    /\ cal_end <= i

\* series of the same width that can take the place of s in a list
Replacements(s) ==
    {MakeSeries(seed, len, SeriesWidth(s)) : seed \in {0, 1}, len \in {InLen + 1, MaxLen}}
        \ {s}

\* ------------------------------------------------------------------------
\* C26: in a call of predict or historical_forecasts with a list of series
\* the result at position j depends only on series j: replacing another
\* series of the list by a different one that also yields a result leaves
\* the result at position j unchanged, and it equals the result of the same
\* call made with series j alone.
\* ------------------------------------------------------------------------
C26_PerSeriesIsolation ==
    ((IsPredictCall \/ IsHfcCall) /\ Returned /\ ~call.single) =>
        \A j \in 1..Len(call.series) :
            /\ LET alone == CallResult(cm, [call EXCEPT !.series = <<call.series[j]>>])
               IN /\ alone.kind = "ok"
                  /\ alone.items = <<result.items[j]>>
            /\ \A i \in 1..Len(call.series) : \A r \in Replacements(call.series[i]) :
                 LET other == CallResult(cm, [call EXCEPT !.series[i] = r])
                 IN (i # j /\ other.kind = "ok") => other.items[j] = result.items[j]

\* a list of two series where replacing the first one changes the first
\* result and the call still returns
C26_Witness ==
    /\ (IsPredictCall \/ IsHfcCall) /\ Returned /\ ~call.single
    /\ Len(call.series) = 2
    /\ result.items[2].kind # "empty"
    /\ \E r \in Replacements(call.series[1]) :
         LET other == CallResult(cm, [call EXCEPT !.series[1] = r])
         IN /\ other.kind = "ok"
            /\ other.items[1] # result.items[1]
            /\ other.items[2] = result.items[2]

\* ------------------------------------------------------------------------
\* C27: every emitted conformal forecast carries the time index of the
\* wrapped forecast it corrects: the output of predict that of the wrapped
\* predict; with last_points_only=False each output forecast that of its
\* wrapped historical forecast; with last_points_only=True the k-th output
\* point the time stamp of the last point of the wrapped historical
\* forecast with index first_fc_idx + k * stride.
\* ------------------------------------------------------------------------
C27_TimeIndexOfWrappedForecast ==
    /\ (IsPredictCall /\ Returned) =>
          \A x \in 1..Len(result.items) :
              result.items[x].times = ModelPredict(call.series[x], call.n).times
    /\ (IsHfcCall /\ Returned) =>
          \A x \in 1..Len(result.items) :
              LET a == call.args
                  s == call.series[x]
                  h == a.forecast_horizon
                  wrapped == ModelHistoricalForecasts(s, h, TRUE)
                  first_fc_idx == FirstFcIdx(s, a, Len(wrapped))
                  item == result.items[x]
                  idx == EmittedIndices(item)
              IN \A p \in 1..Len(idx) :
                   LET raw == At(wrapped, first_fc_idx + (p - 1) * a.stride)
                   IN /\ idx[p] = first_fc_idx + (p - 1) * a.stride
                      /\ IF a.last_points_only
                         THEN /\ item.times[p] = raw.times[h]
                              /\ \A comp \in 1..SeriesWidth(s) :
                                    item.vals[p][SeriesWidth(s) + comp] = Center(raw.vals[h][comp])
                         ELSE /\ item.fcs[p].times = raw.times
                              /\ \A k \in 1..h : \A comp \in 1..SeriesWidth(s) :
                                    item.fcs[p].vals[k][SeriesWidth(s) + comp]
                                        = Center(raw.vals[k][comp])

\* a strided run with last_points_only=True and horizon 2 that returned at
\* least two points
C27_Witness ==
    /\ IsHfcCall /\ Returned
    /\ call.args.last_points_only
    /\ call.args.stride = 2
    /\ call.args.forecast_horizon = 2
    /\ call.args.start # None
    /\ result.items[1].kind = "series"
    /\ Len(result.items[1].times) >= 2

\* ------------------------------------------------------------------------
\* C28: for a model whose method is not "naive", on which predict ends with
\* NotImplementedError, historical_forecasts also ends with an error and
\* never returns intervals.
\* ------------------------------------------------------------------------
C28_MethodTreatedConsistently ==
    (IsHfcCall /\ pc = "returned" /\ cm.method # "naive") =>
        /\ result.kind = "error"
        /\ PredictResult(cm, call.series, call.single, call.args.forecast_horizon).kind = "error"

IsQHatCall == call.op = "_get_q_hat" /\ pc = "returned"

\* the calibration frame with one column replaced
WithQHi(df_cal, col) == [p \in 1..Len(df_cal) |-> [df_cal[p] EXCEPT !.q_hi = col[p]]]
WithQLo(df_cal, col) == [p \in 1..Len(df_cal) |-> [df_cal[p] EXCEPT !.q_lo = col[p]]]
QHatOfFrame(self, df_cal) == GetQHat(self, GetNonconformityScores(self, df_cal))

\* ------------------------------------------------------------------------
\* C29: for the asymmetric quantile-regression variant q_hat_lo is derived
\* only from the lower-tail scores (q_lo - y) and q_hat_hi only from the
\* upper-tail scores (y - q_hi): with the lower-tail scores kept, another
\* upper quantile column leaves q_hat_lo unchanged, and the other way
\* round; either q-hat is one of the scores of its own tail.
\* ------------------------------------------------------------------------
C29_TailsKeptApart ==
    (IsQHatCall /\ Returned /\ cm.method = "cqr" /\ ~cm.symmetrical) =>
        LET df_cal == call.df_cal
            n == Len(df_cal)
        IN /\ \E p \in 1..n : result.q_hat_lo = Minus(df_cal[p].q_lo, df_cal[p].y)
           /\ \E p \in 1..n : result.q_hat_hi = Minus(df_cal[p].y, df_cal[p].q_hi)
           /\ \A col \in [1..n -> QHiValues] :
                LET other == QHatOfFrame(cm, WithQHi(df_cal, col))
                IN other.kind = "ok" => other.q_hat_lo = result.q_hat_lo
           /\ \A col \in [1..n -> QLoValues] :
                LET other == QHatOfFrame(cm, WithQLo(df_cal, col))
                IN other.kind = "ok" => other.q_hat_hi = result.q_hat_hi

\* ------------------------------------------------------------------------
\* C30: _get_q_hat, given n >= 1 ascending-sorted nonconformity scores and
\* alpha in (0, 1), returns a score q_hat such that at most floor(n * alpha)
\* of the scores are strictly greater than q_hat; for n * alpha < 1 it
\* returns the largest score.
\* ------------------------------------------------------------------------
C30_QHatCoversAlpha ==
    (IsQHatCall /\ cm.symmetrical /\ Len(call.noncon_scores.noncon_scores) >= 1) =>
        LET scores == call.noncon_scores.noncon_scores
            n == Len(scores)
        IN /\ Returned
           /\ \E p \in 1..n : result.q_hat_sym = scores[p]
           /\ Cardinality({p \in 1..n : scores[p] > result.q_hat_sym})
                 <= (n * cm.alpha) \div AlphaDen
           /\ n * cm.alpha < AlphaDen => result.q_hat_sym = scores[n]

====
